---- MODULE Spec2Model ----
(***************************************************************************)
(* Batch STEP-to-graph conversion of 3DModel-Processor.                   *)
(*                                                                         *)
(* ModelProcessor.convert_step_to_dgl (src/model_processor.py) and the    *)
(* ModelProcessingTab / WorkerThread code that drives it                   *)
(* (src/ui_window.py).  Spec is one direct call of convert_step_to_dgl;   *)
(* SpecUI is the tab: run button, stop button, memory timer and the       *)
(* worker threads they start.  SpecFaults is the direct call with its     *)
(* faults, SpecModes the same call made in both modes, SpecChunk the chunk *)
(* size of imap_unordered.  SpecGraph is build_graph, SpecNorm the         *)
(* normalizer (src/graph_processor.py), SpecStats the category statistics *)
(* (src/statistics_analyzer.py).                                           *)
(***************************************************************************)
EXTENDS Integers, Sequences, FiniteSets, TLC

(* ---------------------------------------------------------------- bounds *)

\* Largest number of files with a recognised extension under the input root.
MaxFiles == 2

\* Largest value of the worker-count spin box the model tries.
MaxProc == 2

\* Largest number of worker threads one tab starts (runs and restarts).
MaxBatches == 2

\* Largest number of faces of a solid.
MaxFaces == 2

\* Largest number of edges of a solid's face-adjacency graph.
MaxEdges == 2

\* Largest number of samples along one parameter of a face or a curve.
MaxGrid == 2

\* Largest number of samples of the node features of a loaded graph.
MaxSamples == 3

\* Largest number of files in a category folder.
MaxModels == 3

\* Largest number of discovered files a chunk size is computed for.
MaxTaskCount == 120

\* Largest number of worker processes a chunk size is computed for.
MaxPoolSize == 4

(* ----------------------------------------------------------------- paths *)

\* A path is a record: directory components, stem and suffix of the name.
InputRoot == <<"in">>

OutputRoot == <<"out">>

\* Every file the input tree may hold, in directory-walk order.
Universe ==
  << [dir |-> <<"in">>, stem |-> "a", suffix |-> ".stp"],
     [dir |-> <<"in", "sub">>, stem |-> "a", suffix |-> ".stp"],
     [dir |-> <<"in">>, stem |-> "a", suffix |-> ".step"],
     [dir |-> <<"in">>, stem |-> "notes", suffix |-> ".txt"] >>

UniverseSet == { Universe[i] : i \in DOMAIN Universe }

StepSuffixes == {".stp", ".step"}

StepUniverse == { f \in UniverseSet : f.suffix \in StepSuffixes }

\* What converting a file does: it succeeds, load_step/build_graph raises,
\* or save_graphs raises after it has opened the output file.
Outcomes == {"ok", "geom", "io"}

None == <<>>

\* Path.relative_to(root): drop the root's components.
relative_to(p, root) ==
  [p EXCEPT !.dir = SubSeq(p.dir, Len(root) + 1, Len(p.dir))]

\* Path.with_suffix(s): replace the suffix of the name.
with_suffix(p, s) == [p EXCEPT !.suffix = s]

\* Path(root) / rel
join(root, rel) == [rel EXCEPT !.dir = root \o rel.dir]

\* output_file of _process_single_step_file.
output_file(f) ==
  join(OutputRoot, with_suffix(relative_to(f, InputRoot), ".bin"))

OutUniverse == { output_file(f) : f \in StepUniverse }

\* str(e) of the exception a file's conversion raises.
error_msg(o) ==
  IF o = "geom" THEN "build_graph failed" ELSE "save_graphs failed"

Range(s) == { s[i] : i \in DOMAIN s }

Max(a, b) == IF a >= b THEN a ELSE b

Min(a, b) == IF a <= b THEN a ELSE b

\* Mutation of chunksize: the upper limit of 10 is missing.
chunksize_unclamped(n, p) == Max(1, n \div (p * 10))

\* chunksize argument of pool.imap_unordered.
chunksize(n, p) == Max(1, Min(10, n \div (p * 10)))

(* ----------------------------------------------------------------- state *)

VARIABLES
  frozen,   \* getattr(sys, 'frozen', False)
  tree,     \* the input tree: file -> outcome of converting it
  disk,     \* the output tree: output path -> what is stored there
  batch,    \* per worker thread / call: the locals of convert_step_to_dgl
  tab,      \* fields of ModelProcessingTab
  solid,          \* build_graph: the solid and the sampling arguments
  dgl_graph,      \* build_graph: what it returned or raised
  graph,          \* load_one_graph: the graph read from the file
  scaled,         \* load_one_graph: the graph after centering and scaling
  input_dir,      \* analyze_category_statistics: the directory analysed
  category_stats, \* analyze_category_statistics: what it returned
  worksheet,      \* save_statistics_to_excel: the rows of the sheet
  imap_args,      \* imap_unordered: len(step_files) and num_processes
  imap_chunksize  \* imap_unordered: the chunksize argument computed

\* The state of the functions that are called on one value at a time.
pure ==
  <<solid, dgl_graph, graph, scaled, input_dir, category_stats, worksheet,
    imap_args, imap_chunksize>>

vars == <<frozen, tree, disk, batch, tab, pure>>

\* A value that is not there yet (None).
Nothing == [kind |-> "none"]

\* No build_graph, load_one_graph or statistics call is at hand.
PureIdle ==
  /\ solid = Nothing
  /\ dgl_graph = Nothing
  /\ graph = Nothing
  /\ scaled = Nothing
  /\ input_dir = Nothing
  /\ category_stats = Nothing
  /\ worksheet = Nothing
  /\ imap_args = Nothing
  /\ imap_chunksize = Nothing

BatchIds == 1..MaxBatches

NoFile == [dir |-> <<>>, stem |-> "", suffix |-> ""]

Absent == [state |-> "absent", src |-> NoFile, writers |-> 0, torn |-> FALSE]

NoResult == [kind |-> "none", count |-> 0, failures |-> <<>>]

IdleWorker == [stage |-> "idle", chunk |-> <<>>, results |-> <<>>]

UnusedBatch ==
  [ pc |-> "unused",            \* where the thread / call stands
    via |-> "none",             \* "api": direct call, "thread": WorkerThread
    progress_callback |-> "none", \* "none", "sink" (a plain callable), "thread"
    is_running |-> FALSE,       \* WorkerThread._is_running
    cancelled |-> FALSE,        \* stop_processing has stopped this thread
    cancel_at |-> 0,            \* processed_count when it did
    cancel_pool |-> "none",     \* state of the conversion pool when it did
    cause |-> "none",           \* type of the exception that ended the call
    breached |-> FALSE,         \* the memory check fired while it ran
    num_proc |-> 0,             \* worker count requested
    num_processes |-> 0,        \* after the frozen override
    ui_pool |-> "none",         \* pool made by create_process_pool in _convert
    step_files |-> <<>>,
    total_files |-> 0,
    processed_count |-> 0,
    failed_files |-> <<>>,
    idx |-> 1,                  \* position of `for file in step_files`
    res |-> None,               \* result in hand, to be accounted
    pool |-> "none",            \* the `with Pool(...)` of convert_step_to_dgl
    pending |-> <<>>,           \* tasks not yet handed to a worker
    workers |-> <<>>,           \* worker processes of `pool`
    outq |-> <<>>,              \* results waiting to be yielded
    cbLog |-> <<>>,             \* calls of progress_callback: <<k, total>>
    sink |-> <<>>,              \* what update_progress got from this thread
    delivered |-> FALSE,        \* finished/error was emitted to the tab
    attempted |-> {},           \* files _process_single_step_file was run on
    result |-> NoResult ]       \* value returned / exception raised

\* The input trees tried: at most MaxFiles STEP files, each with its outcome
\* (a file of another type is never converted: its outcome is fixed).
Trees ==
  { t \in UNION { [S -> Outcomes] :
                    S \in { T \in SUBSET UniverseSet :
                              Cardinality(T \cap StepUniverse) <= MaxFiles } } :
      \A f \in DOMAIN t : f \notin StepUniverse => t[f] = "ok" }

\* The trees SpecUI tries: those of .stp files alone (two files of one stem,
\* a.stp and a.step, are tried by Spec).
UITrees == { t \in Trees : \A f \in DOMAIN t : f.suffix = ".stp" }

TypeOK ==
  /\ frozen \in BOOLEAN
  /\ tree \in Trees
  /\ DOMAIN disk = OutUniverse
  /\ DOMAIN batch = BatchIds

(* ------------------------------------------------------------- discovery *)

\* Mutation of rglob: a file whose output graph exists is left out.
rglob_unconverted(t, suffix) ==
  SelectSeq(Universe, LAMBDA f : /\ f \in DOMAIN t
                                 /\ f.suffix = suffix
                                 /\ disk[output_file(f)].state # "complete")

\* input_path.rglob("*" + suffix) over a tree (a function file -> outcome).
rglob(t, suffix) ==
  SelectSeq(Universe, LAMBDA f : f \in DOMAIN t /\ f.suffix = suffix)

(* -------------------------------------------------- the output directory *)

\* save_graphs opens output_file(f) for writing: the file exists, unfinished.
BeginWrite(d, f) ==
  LET p == output_file(f) IN
  [d EXCEPT ![p] = [state |-> "partial", src |-> f,
                    writers |-> d[p].writers + 1,
                    torn |-> d[p].writers > 0]]

\* The writer of f stops: done (ok) or interrupted (~ok).  When another
\* writer had the same file open the content is whatever the race left
\* (raced: one of the outcomes of the race).
EndWrite(d, f, ok, raced) ==
  LET p == output_file(f)
      left == d[p].writers - 1 IN
  [d EXCEPT ![p] =
     IF left > 0
       THEN [@ EXCEPT !.writers = left, !.torn = TRUE]
       ELSE [state |-> IF d[p].torn THEN raced
                       ELSE IF ok THEN "complete" ELSE "partial",
             src |-> d[p].src, writers |-> 0, torn |-> FALSE]]

RaceOutcomes(d, f) ==
  IF d[output_file(f)].torn \/ d[output_file(f)].writers > 1
    THEN {"complete", "partial"} ELSE {"complete"}

(* --------------------------------------- _process_single_step_file, parts *)

\* The failure tuple _process_single_step_file returns for f.
failure(f) == <<relative_to(f, InputRoot), error_msg(tree[f])>>

\* load_step or build_graph raises on f.
load_fails(f) == tree[f] = "geom"

\* save_graphs raises on f.
save_fails(f) == tree[f] = "io"

(* ------------------------------------------ convert_step_to_dgl, one call *)

\* Mutation of no_input_files: the empty-discovery check is missing.
no_input_files_unchecked(files) == FALSE

\* Line 471: `if not step_files`.
no_input_files(files) == files = <<>>

\* Lines 457-483: the frozen override, discovery, the empty-discovery error.
Discover(b) ==
  /\ batch[b].pc = "call"
  /\ LET files == rglob(tree, ".stp") \o rglob(tree, ".step")
         np == IF frozen THEN 1 ELSE batch[b].num_proc IN
     IF no_input_files(files)
       THEN batch' = [batch EXCEPT ![b] =
              [@ EXCEPT !.pc = "raised", !.num_processes = np,
                        !.cause = "ValueError",
                        !.result = [kind |-> "ValueError", count |-> 0,
                                    failures |-> <<>>]]]
       ELSE batch' = [batch EXCEPT ![b] =
              [@ EXCEPT !.pc = IF frozen THEN "seq_file" ELSE "pool_start",
                        !.num_processes = np,
                        !.step_files = files,
                        !.total_files = Len(files),
                        !.failed_files = <<>>,
                        !.processed_count = 0,
                        !.idx = 1]]
  /\ UNCHANGED <<pure, frozen, tree, disk, tab>>

\* Lines 489-493 and 407-426: the sequential loop runs load_step and
\* build_graph on the next file; on success save_graphs opens the output.
SeqLoad(b) ==
  /\ batch[b].pc = "seq_file"
  /\ batch[b].idx <= batch[b].total_files
  /\ LET f == batch[b].step_files[batch[b].idx] IN
     IF load_fails(f)
       THEN /\ batch' = [batch EXCEPT ![b] =
                 [@ EXCEPT !.pc = "account", !.res = failure(f),
                           !.attempted = @ \cup {f}]]
            /\ disk' = disk
       ELSE /\ batch' = [batch EXCEPT ![b] =
                 [@ EXCEPT !.pc = "seq_write", !.attempted = @ \cup {f}]]
            /\ disk' = BeginWrite(disk, f)
  /\ UNCHANGED <<pure, frozen, tree, tab>>

\* Lines 429-446: save_graphs finishes or raises; the result is returned.
SeqWrite(b) ==
  /\ batch[b].pc = "seq_write"
  /\ LET f == batch[b].step_files[batch[b].idx] IN
     /\ \E raced \in RaceOutcomes(disk, f) :
          disk' = EndWrite(disk, f, ~save_fails(f), raced)
     /\ batch' = [batch EXCEPT ![b] =
          [@ EXCEPT !.pc = "account",
                    !.res = IF save_fails(f) THEN failure(f) ELSE None]]
  /\ UNCHANGED <<pure, frozen, tree, tab>>

\* The loop position after one result has been accounted.
loop_pc == IF frozen THEN "seq_file" ELSE "pool_wait"

\* Mutation of record_result: a failure is not kept.
record_result_dropped(failed, res) == failed

\* Lines 499-500 / 521-522: `if result is not None: failed_files.append`.
record_result(failed, res) ==
  IF res # None THEN Append(failed, res) ELSE failed

\* Mutation of progress_args: the callback runs before the increment.
progress_args_stale(br) == <<br.processed_count, br.total_files>>

\* Lines 494-497 / 516-519: the count handed to the callback.
progress_args(br) == <<br.processed_count + 1, br.total_files>>

\* Lines 494-500 / 516-522 on result r: count it, call the callback, record
\* a failure.  WorkerThread.progress_callback (lines 125-128) first reads
\* _is_running (here); its emit is the separate step CbEmit, and the rest of
\* the loop body runs after it.
account(br, r) ==
  LET called == br.progress_callback # "none"
      emits == br.progress_callback = "thread" /\ br.is_running IN
  [br EXCEPT !.processed_count = @ + 1,
             !.cbLog = IF called THEN Append(@, progress_args(br)) ELSE @,
             !.pc = IF emits THEN "cb_emit" ELSE loop_pc,
             !.res = IF emits THEN r ELSE None,
             !.failed_files = IF emits THEN @ ELSE record_result(@, r),
             !.idx = IF emits THEN @ ELSE @ + 1]

\* The sequential loop body after _process_single_step_file has returned.
SeqAccount(b) ==
  /\ batch[b].pc = "account"
  /\ batch' = [batch EXCEPT ![b] = account(batch[b], batch[b].res)]
  /\ UNCHANGED <<pure, frozen, tree, disk, tab>>

\* Lines 502-528: the sequential loop is over, the call returns.
SeqReturn(b) ==
  /\ batch[b].pc = "seq_file"
  /\ batch[b].idx > batch[b].total_files
  /\ batch' = [batch EXCEPT ![b] =
       [@ EXCEPT !.pc = "returned",
                 !.result = [kind |-> "value",
                             count |-> Len(batch[b].failed_files),
                             failures |-> batch[b].failed_files]]]
  /\ UNCHANGED <<pure, frozen, tree, disk, tab>>

(* ------------------------------------------------------- the pooled mode *)

\* Line 508: `with Pool(processes=num_processes, ...) as pool`, and the task
\* generator of line 509.
PoolStart(b) ==
  /\ batch[b].pc = "pool_start"
  /\ batch' = [batch EXCEPT ![b] =
       [@ EXCEPT !.pc = "pool_wait",
                 !.pool = "live",
                 !.workers = [w \in 1..batch[b].num_processes |-> IdleWorker],
                 !.pending = batch[b].step_files,
                 !.outq = <<>>]]
  /\ UNCHANGED <<pure, frozen, tree, disk, tab>>

IdleWorkers(b) ==
  { w \in DOMAIN batch[b].workers : batch[b].workers[w].stage = "idle" }

\* The first free worker (workers of a pool are interchangeable).
FirstIdle(b) ==
  CHOOSE w \in IdleWorkers(b) : \A v \in IdleWorkers(b) : w <= v

\* imap_unordered hands the next chunk of tasks to a free worker.
Dispatch(b) ==
  /\ batch[b].pool = "live"
  /\ batch[b].pending # <<>>
  /\ IdleWorkers(b) # {}
  /\ LET w == FirstIdle(b)
         n == Min(Len(batch[b].pending),
                  chunksize(batch[b].total_files, batch[b].num_processes))
     IN batch' = [batch EXCEPT ![b] =
          [@ EXCEPT !.pending = SubSeq(@, n + 1, Len(@)),
                    !.workers[w] = [stage |-> "load",
                                    chunk |-> SubSeq(batch[b].pending, 1, n),
                                    results |-> <<>>]]]
  /\ UNCHANGED <<pure, frozen, tree, disk, tab>>

\* Mutation of finish_task: the worker itself appends a failure to the
\* failed_files it was handed in its task.
finish_task_shared(br, w, r) ==
  LET wk == br.workers[w]
      rs == Append(wk.results, r)
      fs == IF r # None THEN Append(br.failed_files, r) ELSE br.failed_files
  IN
  IF Len(wk.chunk) > 1
    THEN [br EXCEPT !.failed_files = fs,
                    !.workers[w] =
            [stage |-> "load", chunk |-> Tail(wk.chunk), results |-> rs]]
    ELSE [br EXCEPT !.failed_files = fs,
                    !.workers[w] = IdleWorker, !.outq = @ \o rs]

\* Mutation of finish_task: what the worker hands back is always None.
finish_task_silent(br, w, r) ==
  LET wk == br.workers[w]
      rs == Append(wk.results, None) IN
  IF Len(wk.chunk) > 1
    THEN [br EXCEPT !.workers[w] =
            [stage |-> "load", chunk |-> Tail(wk.chunk), results |-> rs]]
    ELSE [br EXCEPT !.workers[w] = IdleWorker, !.outq = @ \o rs]

\* A worker has a result for the head of its chunk: it goes on with the
\* chunk, or hands the chunk's results to the result queue and is free.
finish_task(br, w, r) ==
  LET wk == br.workers[w]
      rs == Append(wk.results, r) IN
  IF Len(wk.chunk) > 1
    THEN [br EXCEPT !.workers[w] =
            [stage |-> "load", chunk |-> Tail(wk.chunk), results |-> rs]]
    ELSE [br EXCEPT !.workers[w] = IdleWorker, !.outq = @ \o rs]

\* Lines 407-426 in a worker process.
WorkLoad(b, w) ==
  /\ batch[b].pool = "live"
  /\ w \in DOMAIN batch[b].workers
  /\ batch[b].workers[w].stage = "load"
  /\ LET f == Head(batch[b].workers[w].chunk)
         br == [batch[b] EXCEPT !.attempted = @ \cup {f}] IN
     IF load_fails(f)
       THEN /\ batch' = [batch EXCEPT ![b] = finish_task(br, w, failure(f))]
            /\ disk' = disk
       ELSE /\ batch' = [batch EXCEPT ![b] =
                           [br EXCEPT !.workers[w].stage = "write"]]
            /\ disk' = BeginWrite(disk, f)
  /\ UNCHANGED <<pure, frozen, tree, tab>>

\* Lines 429-446 in a worker process.
WorkWrite(b, w) ==
  /\ batch[b].pool = "live"
  /\ w \in DOMAIN batch[b].workers
  /\ batch[b].workers[w].stage = "write"
  /\ LET f == Head(batch[b].workers[w].chunk) IN
     /\ \E raced \in RaceOutcomes(disk, f) :
          disk' = EndWrite(disk, f, ~save_fails(f), raced)
     /\ batch' = [batch EXCEPT ![b] =
          finish_task(batch[b], w,
                      IF save_fails(f) THEN failure(f) ELSE None)]
  /\ UNCHANGED <<pure, frozen, tree, tab>>

\* Lines 511-522: the loop receives the next finished result and accounts it.
PoolAccount(b) ==
  /\ batch[b].pc = "pool_wait"
  /\ batch[b].outq # <<>>
  /\ batch' = [batch EXCEPT ![b] =
       account([batch[b] EXCEPT !.outq = Tail(@)], Head(batch[b].outq))]
  /\ UNCHANGED <<pure, frozen, tree, disk, tab>>

\* Lines 511-528: every task has been yielded, the `with` block ends (the
\* pool is terminated) and the call returns.
PoolExit(b) ==
  /\ batch[b].pc = "pool_wait"
  /\ batch[b].processed_count = batch[b].total_files
  /\ batch' = [batch EXCEPT ![b] =
       [@ EXCEPT !.pc = "returned",
                 !.pool = "terminated",
                 !.result = [kind |-> "value",
                             count |-> Len(batch[b].failed_files),
                             failures |-> batch[b].failed_files]]]
  /\ UNCHANGED <<pure, frozen, tree, disk, tab>>

\* Line 508: Pool(processes=num_processes) has started num_processes worker
\* processes; they live until the pool is terminated.
pool_processes(br) == IF br.pool = "live" THEN Len(br.workers) ELSE 0

\* Lines 53-55: the pool of create_process_pool(num_proc) has num_proc
\* worker processes of its own, from _convert's line 2040 until terminate().
ui_pool_processes(br) == IF br.ui_pool = "live" THEN br.num_proc ELSE 0

(* ------------------------------------------------ Spec: one direct call *)

IdleTab ==
  [thread |-> 0,            \* self.thread: 0 is None, else the thread's id
   process_pool |-> 0,      \* self.process_pool: 0 is None, else the id of
                            \* the thread whose _convert created the pool
   memory_timer |-> FALSE,  \* memory_timer is active
   run_btn |-> FALSE,       \* run button enabled
   stop_btn |-> FALSE,      \* stop button enabled
   proc_spin |-> 0,         \* min(proc_spin.value(), cpu_count, 4)
   status_label |-> ""]

Init ==
  /\ frozen \in BOOLEAN
  /\ tree \in Trees
  /\ disk = [p \in OutUniverse |-> Absent]
  /\ \E np \in 1..MaxProc, cb \in {"none", "sink"} :
       batch = [b \in BatchIds |->
                  IF b = 1
                    THEN [UnusedBatch EXCEPT !.pc = "call", !.via = "api",
                                             !.num_proc = np,
                                             !.progress_callback = cb]
                    ELSE UnusedBatch]
  /\ tab = IdleTab
  /\ PureIdle

Next ==
  \E b \in BatchIds :
    \/ Discover(b)
    \/ SeqLoad(b)
    \/ SeqWrite(b)
    \/ SeqAccount(b)
    \/ SeqReturn(b)
    \/ PoolStart(b)
    \/ Dispatch(b)
    \/ \E w \in 1..MaxProc : WorkLoad(b, w)
    \/ \E w \in 1..MaxProc : WorkWrite(b, w)
    \/ PoolAccount(b)
    \/ PoolExit(b)

Spec == Init /\ [][Next]_vars

(* ------------------------------------------- SpecUI: the processing tab *)

\* QThread.isRunning(): started and run() has not returned.
isRunning(b) == batch[b].pc \notin {"unused", "finished"}

UnusedIds == { b \in BatchIds : batch[b].pc = "unused" }

NextId == CHOOSE b \in UnusedIds : \A c \in UnusedIds : b <= c

\* Pool.terminate() on self.process_pool: the pool that _convert of thread
\* tab.process_pool made with create_process_pool.
terminate_process_pool(bs) ==
  IF tab.process_pool # 0
    THEN [bs EXCEPT ![tab.process_pool].ui_pool = "terminated"]
    ELSE bs

\* process_step_to_dgl and run_in_thread (lines 2024-2059, 2203-2215): the
\* thread at hand is told to stop, a new WorkerThread is made and started.
run_in_thread(bs, nb) ==
  LET stopped == IF tab.thread # 0 /\ isRunning(tab.thread)
                   THEN [bs EXCEPT ![tab.thread].is_running = FALSE]
                   ELSE bs IN
  [stopped EXCEPT ![nb] =
     [UnusedBatch EXCEPT !.pc = "thread_start", !.via = "thread",
                         !.progress_callback = "thread",
                         !.is_running = TRUE,
                         !.num_proc = tab.proc_spin]]

\* run_processing, mode "STEP转DGL图结构" (lines 1925-1972).
RunProcessing ==
  /\ tab.run_btn
  /\ UnusedIds # {}
  /\ batch' = run_in_thread(batch, NextId)
  /\ tab' = [tab EXCEPT !.thread = NextId, !.run_btn = FALSE,
                        !.stop_btn = TRUE, !.memory_timer = TRUE,
                        !.status_label = "processing"]
  /\ UNCHANGED <<pure, frozen, tree, disk>>

\* stop_processing (lines 1974-1992).
StopProcessing ==
  /\ tab.stop_btn
  /\ LET stopped == IF tab.thread # 0 /\ isRunning(tab.thread)
                      THEN [batch EXCEPT ![tab.thread].is_running = FALSE,
                                         ![tab.thread].cancelled = TRUE,
                                         ![tab.thread].cancel_at =
                                           batch[tab.thread].processed_count,
                                         ![tab.thread].cancel_pool =
                                           batch[tab.thread].pool]
                      ELSE batch IN
     batch' = terminate_process_pool(stopped)
  /\ tab' = [tab EXCEPT !.memory_timer = FALSE, !.run_btn = TRUE,
                        !.stop_btn = FALSE, !.status_label = "stopped"]
  /\ UNCHANGED <<pure, frozen, tree, disk>>

\* check_memory_usage with mem_usage > mem_limit (lines 1994-2022): the
\* tab's pool is terminated and the conversion is started again.
CheckMemoryUsage ==
  /\ tab.memory_timer
  /\ UnusedIds # {}
  /\ batch' = run_in_thread(
                [c \in BatchIds |->
                   [terminate_process_pool(batch)[c] EXCEPT
                      !.breached = @ \/ isRunning(c)]],
                NextId)
  /\ tab' = [tab EXCEPT !.thread = NextId, !.status_label = "memory warning"]
  /\ UNCHANGED <<pure, frozen, tree, disk>>

\* _convert, line 2040: self.process_pool = create_process_pool(num_proc).
ThreadStart(b) ==
  /\ batch[b].pc = "thread_start"
  /\ batch' = [batch EXCEPT ![b] = [@ EXCEPT !.pc = "call",
                                             !.ui_pool = "live"]]
  /\ tab' = [tab EXCEPT !.process_pool = b]
  /\ UNCHANGED <<pure, frozen, tree, disk>>

\* _convert, lines 2053-2057: the finally block.
ThreadFinally(b) ==
  /\ batch[b].pc \in {"returned", "raised"}
  /\ batch[b].via = "thread"
  /\ batch' = [terminate_process_pool(batch) EXCEPT ![b].pc = "thread_emit"]
  /\ tab' = [tab EXCEPT !.process_pool = 0]
  /\ UNCHANGED <<pure, frozen, tree, disk>>

\* on_dgl_conversion_complete / on_dgl_conversion_error on the tab.
slot(t, result) ==
  [t EXCEPT !.memory_timer = FALSE, !.run_btn = TRUE, !.stop_btn = FALSE,
            !.status_label = IF result.kind # "value" THEN "error"
                             ELSE IF result.count > 0 THEN "done, some failed"
                             ELSE "done"]

\* WorkerThread.run, lines 118-123: the result or the error is emitted only
\* while _is_running holds.
ThreadEmit(b) ==
  /\ batch[b].pc = "thread_emit"
  /\ batch' = [batch EXCEPT ![b].pc = "finished",
                            ![b].delivered = batch[b].is_running]
  /\ tab' = IF batch[b].is_running THEN slot(tab, batch[b].result) ELSE tab
  /\ UNCHANGED <<pure, frozen, tree, disk>>

\* WorkerThread.progress_callback, line 128: progress.emit(current, total),
\* after line 127 has read _is_running as true (in account); then the
\* rest of the loop body.
CbEmit(b) ==
  /\ batch[b].pc = "cb_emit"
  /\ batch' = [batch EXCEPT ![b] =
       [@ EXCEPT !.pc = loop_pc,
                 !.sink = Append(@, <<batch[b].processed_count,
                                      batch[b].total_files>>),
                 !.failed_files = record_result(@, batch[b].res),
                 !.res = None,
                 !.idx = @ + 1]]
  /\ UNCHANGED <<pure, frozen, tree, disk, tab>>

InitUI ==
  /\ frozen \in BOOLEAN
  /\ tree \in UITrees
  /\ disk = [p \in OutUniverse |-> Absent]
  /\ batch = [b \in BatchIds |-> UnusedBatch]
  /\ \E np \in 1..MaxProc :
       tab = [IdleTab EXCEPT !.run_btn = TRUE, !.proc_spin = np]
  /\ PureIdle

NextUI ==
  \/ RunProcessing
  \/ StopProcessing
  \/ CheckMemoryUsage
  \/ \E b \in BatchIds :
       \/ ThreadStart(b)
       \/ Discover(b)
       \/ SeqLoad(b)
       \/ SeqWrite(b)
       \/ SeqAccount(b)
       \/ CbEmit(b)
       \/ SeqReturn(b)
       \/ PoolStart(b)
       \/ Dispatch(b)
       \/ \E w \in 1..MaxProc : WorkLoad(b, w)
       \/ \E w \in 1..MaxProc : WorkWrite(b, w)
       \/ PoolAccount(b)
       \/ PoolExit(b)
       \/ ThreadFinally(b)
       \/ ThreadEmit(b)

SpecUI == InitUI /\ [][NextUI]_vars

(* ------------------------- SpecFaults: one direct call, with its faults *)

\* Lines 459-460: input_dir is not a directory (nothing is under it).
NotADirectory(b) ==
  /\ batch[b].pc = "call"
  /\ DOMAIN tree = {}
  /\ batch' = [batch EXCEPT ![b] =
       [@ EXCEPT !.pc = "raised", !.cause = "NotADirectoryError",
                 !.result = [kind |-> "NotADirectoryError", count |-> 0,
                             failures |-> <<>>]]]
  /\ UNCHANGED <<pure, frozen, tree, disk, tab>>

\* Mutation of wrapped: the exception is raised again as it is.
reraised(br, cause) ==
  [br EXCEPT !.pc = "raised", !.cause = cause,
             !.result = [kind |-> cause, count |-> 0, failures |-> <<>>]]

\* Lines 524-526: an exception of the try block leaves the call as
\* Exception(f"处理STEP文件失败: {str(e)}").
wrapped(br, cause) ==
  [br EXCEPT !.pc = "raised", !.cause = cause,
             !.result = [kind |-> "Exception", count |-> 0,
                         failures |-> <<>>]]

\* Line 508: Pool(...) raises (no process can be started).
PoolStartFails(b) ==
  /\ batch[b].pc = "pool_start"
  /\ batch' = [batch EXCEPT ![b] = wrapped(batch[b], "OSError")]
  /\ UNCHANGED <<pure, frozen, tree, disk, tab>>

\* Lines 494-497 and 502-504: in the sequential loop progress_callback
\* raises; the except branch of the loop records the file with the
\* callback's message and the loop goes on (lines 499-500 are skipped).
SeqCallbackRaises(b) ==
  /\ batch[b].pc = "account"
  /\ batch[b].progress_callback = "faulty"
  /\ LET f == batch[b].step_files[batch[b].idx] IN
     batch' = [batch EXCEPT ![b] =
       [@ EXCEPT !.pc = "seq_file",
                 !.processed_count = @ + 1,
                 !.cbLog = Append(@, progress_args(batch[b])),
                 !.res = None,
                 !.failed_files =
                   Append(@, <<relative_to(f, InputRoot), "callback failed">>),
                 !.idx = @ + 1]]
  /\ UNCHANGED <<pure, frozen, tree, disk, tab>>

\* Pool.terminate() while workers run: a worker that is writing is killed
\* and its output file stays as far as it was written.
RECURSIVE kill_writers(_, _, _)
kill_writers(d, workers, w) ==
  IF w > Len(workers) THEN d
  ELSE kill_writers(
         IF workers[w].stage = "write"
           THEN EndWrite(d, Head(workers[w].chunk), FALSE, "partial")
           ELSE d,
         workers, w + 1)

\* Lines 516-519 and 524-526: in the pooled loop progress_callback raises;
\* the with block is left (the pool is terminated) and the call raises.
PoolCallbackRaises(b) ==
  /\ batch[b].pc = "pool_wait"
  /\ batch[b].outq # <<>>
  /\ batch[b].progress_callback = "faulty"
  /\ batch' = [batch EXCEPT ![b] =
       wrapped([@ EXCEPT !.processed_count = @ + 1,
                         !.cbLog = Append(@, progress_args(batch[b])),
                         !.outq = Tail(@),
                         !.pool = "terminated"],
               "CallbackError")]
  /\ disk' = kill_writers(disk, batch[b].workers, 1)
  /\ UNCHANGED <<pure, frozen, tree, tab>>

\* A worker process of the pool dies in the middle of a file (it is killed,
\* or the geometry kernel crashes).  The pool starts a new worker in its
\* place; the tasks of the chunk the worker had are not run again and their
\* results never reach the loop of lines 511-522.
WorkerDies(b, w) ==
  /\ batch[b].pool = "live"
  /\ w \in DOMAIN batch[b].workers
  /\ batch[b].workers[w].stage \in {"load", "write"}
  /\ batch' = [batch EXCEPT ![b].workers[w] = IdleWorker]
  /\ disk' = IF batch[b].workers[w].stage = "write"
               THEN EndWrite(disk, Head(batch[b].workers[w].chunk), FALSE,
                             "partial")
               ELSE disk
  /\ UNCHANGED <<pure, frozen, tree, tab>>

InitFaults ==
  /\ frozen \in BOOLEAN
  /\ tree \in Trees
  /\ disk = [p \in OutUniverse |-> Absent]
  /\ \E np \in 1..MaxProc, cb \in {"none", "sink", "faulty"} :
       batch = [b \in BatchIds |->
                  IF b = 1
                    THEN [UnusedBatch EXCEPT !.pc = "call", !.via = "api",
                                             !.num_proc = np,
                                             !.progress_callback = cb]
                    ELSE UnusedBatch]
  /\ tab = IdleTab
  /\ PureIdle

NextFaults ==
  \/ Next
  \/ \E b \in BatchIds :
       \/ NotADirectory(b)
       \/ PoolStartFails(b)
       \/ SeqCallbackRaises(b)
       \/ PoolCallbackRaises(b)
       \/ \E w \in 1..MaxProc : WorkerDies(b, w)

SpecFaults == InitFaults /\ [][NextFaults]_vars

(* ------------------- SpecModes: the same call, once in each of the modes *)

\* The first call has ended; convert_step_to_dgl is called again with the
\* same arguments on the same input tree where sys.frozen is the other way
\* round, so that the second call runs in the other mode.
CallInOtherMode ==
  /\ batch[1].pc \in {"returned", "raised"}
  /\ batch[2].pc = "unused"
  /\ frozen' = ~frozen
  /\ batch' = [batch EXCEPT ![2] =
       [UnusedBatch EXCEPT !.pc = "call", !.via = "api",
                           !.num_proc = batch[1].num_proc,
                           !.progress_callback = batch[1].progress_callback]]
  /\ UNCHANGED <<pure, tree, disk, tab>>

NextModes ==
  \/ Next
  \/ CallInOtherMode

SpecModes == Init /\ [][NextModes]_vars

(* ============================================================ build_graph *)

\* Values of uvgrid(face, method="visibility_status").
Classes == {0, 1, 2}

\* A failure of one of the sampling calls: on no call, on those of the
\* idx-th face, or on those of the idx-th edge of the adjacency graph.
NoFail == [on |-> "none", idx |-> 0]

\* The solids tried.  faces: the faces in the order of graph.nodes, each with
\* the classification of its first sample (the next samples take the next
\* classes in turn); edges: graph.edges in order, each with its end faces and
\* edge.has_curve(); fail: the sampling call that raises; num_u, num_v,
\* curv_u: the sampling arguments.
Solids ==
  { s \in UNION { [kind : {"solid"},
                   faces : [1..n -> [status : Classes]],
                   edges : UNION { [1..m -> { e \in [src : 1..n, dst : 1..n,
                                                      has_curve : BOOLEAN] :
                                                e.src # e.dst }] :
                                   m \in 0..MaxEdges },
                   fail : {NoFail} \cup [on : {"face"}, idx : 1..n]
                                   \cup [on : {"edge"}, idx : 1..MaxEdges],
                   num_u : 1..MaxGrid, num_v : 1..MaxGrid,
                   curv_u : 1..MaxGrid] : n \in 0..MaxFaces } :
      s.fail.on = "edge" => s.fail.idx <= Len(s.edges) }

\* Lines 337-344: uvgrid(face, "point" / "normal"): a num_u x num_v grid of
\* 3-vectors, here the face and the grid position the sample was taken at.
uvgrid_point(fi, num_u, num_v) ==
  [i \in 1..num_u |-> [j \in 1..num_v |-> <<fi, i, j>>]]

uvgrid_normal(fi, num_u, num_v) ==
  [i \in 1..num_u |-> [j \in 1..num_v |-> <<0 - fi, 0 - i, 0 - j>>]]

\* Lines 347-349: uvgrid(face, "visibility_status"): a num_u x num_v grid of
\* 1-vectors holding the classification of each sample.
uvgrid_visibility_status(face, num_u, num_v) ==
  [i \in 1..num_u |->
     [j \in 1..num_v |-> <<(face.status + (i - 1) * num_v + (j - 1)) % 3>>]]

\* Mutation of mask: a single-category test.
mask_single(visibility_status) == IF visibility_status = 0 THEN 1 ELSE 0

\* Line 352: np.logical_or(visibility_status == 0, visibility_status == 2).
mask(visibility_status) ==
  IF visibility_status = 0 \/ visibility_status = 2 THEN 1 ELSE 0

\* Mutation of face_feat: the mask channel is left out.
face_feat_unmasked(face, fi, num_u, num_v) ==
  [i \in 1..num_u |->
     [j \in 1..num_v |->
        uvgrid_point(fi, num_u, num_v)[i][j]
          \o uvgrid_normal(fi, num_u, num_v)[i][j]]]

\* Lines 337-353: np.concatenate((points, normals, mask), axis=-1).
face_feat(face, fi, num_u, num_v) ==
  [i \in 1..num_u |->
     [j \in 1..num_v |->
        uvgrid_point(fi, num_u, num_v)[i][j]
          \o uvgrid_normal(fi, num_u, num_v)[i][j]
          \o <<mask(uvgrid_visibility_status(face, num_u, num_v)[i][j][1])>>]]

\* Lines 366-370: ugrid(edge, "point"), ugrid(edge, "tangent") concatenated:
\* curv_u samples of 6 channels.
edge_feat(k, curv_u) ==
  [i \in 1..curv_u |-> <<k, i, 0, 0 - k, 0 - i, 0>>]

\* What a loop of build_graph has gathered, or the exception that ended it.
Raised(msg) == [kind |-> "raise", msg |-> msg]

Gathered(feats) == [kind |-> "ok", feats |-> feats]

\* Lines 332-356: the loop over graph.nodes from face fi on, acc the list
\* graph_face_feat so far.  A sampling call that raises ends the loop.
RECURSIVE graph_face_feat(_, _, _)
graph_face_feat(s, fi, acc) ==
  IF fi > Len(s.faces) THEN Gathered(acc)
  ELSE IF s.fail = [on |-> "face", idx |-> fi] THEN Raised("uvgrid failed")
  ELSE graph_face_feat(s, fi + 1,
         Append(acc, face_feat(s.faces[fi], fi, s.num_u, s.num_v)))

\* Lines 359-373: the loop over graph.edges from edge k on.  An edge without
\* a curve is skipped; a sampling call that raises ends the loop.
RECURSIVE graph_edge_feat(_, _, _)
graph_edge_feat(s, k, acc) ==
  IF k > Len(s.edges) THEN Gathered(acc)
  ELSE IF ~s.edges[k].has_curve THEN graph_edge_feat(s, k + 1, acc)
  ELSE IF s.fail = [on |-> "edge", idx |-> k] THEN Raised("ugrid failed")
  ELSE graph_edge_feat(s, k + 1, Append(acc, edge_feat(k, s.curv_u)))

\* Line 390: raise Exception(f"构建图结构失败: {str(e)}").
build_graph_error(msg) == Raised(<<"build_graph failed", msg>>)

\* Mutation of build_graph: an exception of the loops is swallowed and the
\* graph is made of what the loops had gathered.
build_graph_lenient(s) ==
  [kind |-> "graph", num_nodes |-> Len(s.faces),
   src |-> [k \in DOMAIN s.edges |-> s.edges[k].src],
   dst |-> [k \in DOMAIN s.edges |-> s.edges[k].dst],
   ndata |-> [i \in 1..(IF s.fail.on = "face" THEN s.fail.idx - 1
                        ELSE Len(s.faces)) |->
                face_feat(s.faces[i], i, s.num_u, s.num_v)],
   edata |-> <<>>]

\* Lines 325-390.  dgl.graph takes every edge of graph.edges; setting ndata
\* or edata raises when the number of rows is not the number of nodes or of
\* edges; every exception leaves as the Exception of line 390.
build_graph(s) ==
  LET nf == graph_face_feat(s, 1, <<>>)
      ef == graph_edge_feat(s, 1, <<>>)
  IN IF nf.kind = "raise" THEN build_graph_error(nf.msg)
     ELSE IF ef.kind = "raise" THEN build_graph_error(ef.msg)
     ELSE IF Len(nf.feats) # Len(s.faces) THEN build_graph_error("DGLError")
     ELSE IF Len(ef.feats) # Len(s.edges) THEN build_graph_error("DGLError")
     ELSE [kind |-> "graph", num_nodes |-> Len(s.faces),
           src |-> [k \in DOMAIN s.edges |-> s.edges[k].src],
           dst |-> [k \in DOMAIN s.edges |-> s.edges[k].dst],
           ndata |-> nf.feats, edata |-> ef.feats]

(* ------------------------- SpecGraph: build_graph on one solid, one file *)

\* The file that holds the solid.
SolidFile == Universe[1]

\* The conversion of the solid's file: load_step returns the solid, and
\* build_graph raises or save_graphs stores its graph.
solid_outcome(s) == IF build_graph(s).kind = "raise" THEN "geom" ELSE "ok"

InitGraph ==
  /\ solid \in Solids
  /\ dgl_graph = Nothing
  /\ graph = Nothing
  /\ scaled = Nothing
  /\ input_dir = Nothing
  /\ category_stats = Nothing
  /\ worksheet = Nothing
  /\ imap_args = Nothing
  /\ imap_chunksize = Nothing
  /\ frozen \in BOOLEAN
  /\ tree = [f \in {SolidFile} |-> solid_outcome(solid)]
  /\ disk = [p \in OutUniverse |-> Absent]
  /\ batch = [b \in BatchIds |-> UnusedBatch]
  /\ tab = IdleTab

\* build_graph(solid, curv_u, num_u, num_v) is called.
BuildGraph ==
  /\ solid # Nothing
  /\ dgl_graph = Nothing
  /\ dgl_graph' = build_graph(solid)
  /\ UNCHANGED <<frozen, tree, disk, batch, tab, solid, graph, scaled,
                 input_dir, category_stats, worksheet,
                 imap_args, imap_chunksize>>

\* convert_step_to_dgl is called on the directory of the solid's file.
ConvertSolid ==
  /\ dgl_graph # Nothing
  /\ batch[1].pc = "unused"
  /\ batch' = [batch EXCEPT ![1] =
       [UnusedBatch EXCEPT !.pc = "call", !.via = "api", !.num_proc = 1]]
  /\ UNCHANGED <<pure, frozen, tree, disk, tab>>

NextGraph ==
  \/ BuildGraph
  \/ ConvertSolid
  \/ Next

SpecGraph == InitGraph /\ [][NextGraph]_vars

(* ========================================= graph_processor: the normalizer *)

\* A tensor element is a fraction <<n, d>> in lowest terms, d > 0; the
\* floating-point values that are not numbers have d = 0: <<1, 0>> is inf,
\* <<-1, 0>> is -inf, <<0, 0>> is nan.
RECURSIVE GCD(_, _)
GCD(a, b) == IF b = 0 THEN a ELSE GCD(b, a % b)

Abs(n) == IF n < 0 THEN 0 - n ELSE n

Sign(n) == IF n < 0 THEN 0 - 1 ELSE IF n > 0 THEN 1 ELSE 0

Frac(n, d) ==
  LET g == GCD(Abs(n), Abs(d))
      sg == Sign(d) IN
  <<(sg * n) \div g, (sg * d) \div g>>

Num(n) == <<n, 1>>

Inf == <<1, 0>>

NaN == <<0, 0>>

Finite(a) == a[2] # 0

\* a - b, a * b and a / b of floating-point values.
fsub(a, b) ==
  IF Finite(a) /\ Finite(b) THEN Frac(a[1] * b[2] - b[1] * a[2], a[2] * b[2])
  ELSE IF a = NaN \/ b = NaN THEN NaN
  ELSE IF Finite(b) THEN a
  ELSE IF Finite(a) THEN <<0 - b[1], 0>>
  ELSE IF a = b THEN NaN ELSE a

fmul(a, b) ==
  IF Finite(a) /\ Finite(b) THEN Frac(a[1] * b[1], a[2] * b[2])
  ELSE <<Sign(a[1]) * Sign(b[1]), 0>>

fdiv(a, b) ==
  IF Finite(a) /\ Finite(b) /\ b[1] # 0
    THEN Frac(a[1] * b[2], a[2] * b[1])
  ELSE IF Finite(a) /\ Finite(b) THEN <<Sign(a[1]), 0>>
  ELSE IF Finite(a) /\ b # NaN THEN Num(0)
  ELSE NaN

fadd(a, b) == fsub(a, fsub(Num(0), b))

\* a <= b of two numbers.
fle(a, b) == a[1] * b[2] <= b[1] * a[2]

\* x.min() and x.max() of a non-empty sequence of numbers.
RECURSIVE tensor_min(_)
tensor_min(xs) ==
  IF Len(xs) = 1 THEN xs[1]
  ELSE LET m == tensor_min(Tail(xs)) IN IF fle(xs[1], m) THEN xs[1] ELSE m

RECURSIVE tensor_max(_)
tensor_max(xs) ==
  IF Len(xs) = 1 THEN xs[1]
  ELSE LET m == tensor_max(Tail(xs)) IN IF fle(m, xs[1]) THEN xs[1] ELSE m

\* The list of the items of a sequence of sequences, in order.
RECURSIVE Flatten(_)
Flatten(ss) == IF ss = <<>> THEN <<>> ELSE Head(ss) \o Flatten(Tail(ss))

\* Mutation of bounding_box_pointcloud: the check of an empty cloud is
\* missing and the box of nothing is the origin.
bounding_box_pointcloud_unchecked(pts) ==
  IF Len(pts) = 0
    THEN [kind |-> "box", min |-> <<Num(0), Num(0), Num(0)>>,
          max |-> <<Num(0), Num(0), Num(0)>>]
    ELSE [kind |-> "box",
          min |-> [c \in 1..3 |-> tensor_min([i \in DOMAIN pts |-> pts[i][c]])],
          max |-> [c \in 1..3 |-> tensor_max([i \in DOMAIN pts |-> pts[i][c]])]]

\* bounding_box_pointcloud (lines 51-87) on a sequence of 3-vectors.
bounding_box_pointcloud(pts) ==
  IF Len(pts) = 0 THEN Raised("ValueError: empty point cloud")
  ELSE [kind |-> "box",
        min |-> [c \in 1..3 |-> tensor_min([i \in DOMAIN pts |-> pts[i][c]])],
        max |-> [c \in 1..3 |-> tensor_max([i \in DOMAIN pts |-> pts[i][c]])]]

\* inp[..., :] reshaped to a list of samples (lines 38-39).
samples_of(inp) == Flatten(Flatten(inp))

\* Mutation of bounding_box_uvgrid: the box of every sample, visible or not.
bounding_box_uvgrid_all(inp) ==
  LET box == bounding_box_pointcloud(
               [i \in DOMAIN samples_of(inp) |->
                  SubSeq(samples_of(inp)[i], 1, 3)]) IN
  IF box.kind = "raise" THEN Raised(<<"bounding_box_uvgrid failed", box.msg>>)
  ELSE box

\* bounding_box_uvgrid (lines 36-49): the box of the samples whose channel 6
\* equals 1; an exception leaves as the Exception of line 49.
bounding_box_uvgrid(inp) ==
  LET visible == SelectSeq(samples_of(inp), LAMBDA x : x[7] = 1)
      box == bounding_box_pointcloud(
               [i \in DOMAIN visible |-> SubSeq(visible[i], 1, 3)]) IN
  IF box.kind = "raise" THEN Raised(<<"bounding_box_uvgrid failed", box.msg>>)
  ELSE box

\* Mutation of shift_and_scale: the scaling comes before the shift.
shift_and_scale_swapped(x, center_point, scale_factor) ==
  [c \in DOMAIN x |->
     IF c <= 3 THEN fsub(fmul(x[c], scale_factor), center_point[c])
     ELSE x[c]]

\* Lines 128-129 / 176-177: x[..., :3] -= center_point; x[..., :3] *= scale.
shift_and_scale(x, center_point, scale_factor) ==
  [c \in DOMAIN x |->
     IF c <= 3 THEN fmul(fsub(x[c], center_point[c]), scale_factor)
     ELSE x[c]]

\* The values of a tensor of samples after shift_and_scale on every sample.
transformed(inp, center_point, scale_factor) ==
  [n \in DOMAIN inp |->
     [i \in DOMAIN inp[n] |->
        [j \in DOMAIN inp[n][i] |->
           shift_and_scale(inp[n][i][j], center_point, scale_factor)]]]

\* Mutation of clone_and_transform: without the clone the in-place
\* operations write the storage of inp.
alias_and_transform(inp, center_point, scale_factor) ==
  [passed_in |-> transformed(inp, center_point, scale_factor),
   inp_centered_scaled |-> transformed(inp, center_point, scale_factor)]

\* Lines 127-129: inp.clone(), then -= and *= in place on the clone.  What
\* the two tensors hold afterwards: the tensor passed in and the clone.
clone_and_transform(inp, center_point, scale_factor) ==
  [passed_in |-> inp,
   inp_centered_scaled |-> transformed(inp, center_point, scale_factor)]

\* center_and_scale_uvgrid(inp, return_center_scale=True) (lines 115-138).
\* passed_in: what the caller's tensor holds after the call.
center_and_scale_uvgrid(inp) ==
  LET bbox == bounding_box_uvgrid(inp) IN
  IF bbox.kind = "raise"
    THEN Raised(<<"center_and_scale_uvgrid failed", bbox.msg>>)
  ELSE
    LET diagonal == [c \in 1..3 |-> fsub(bbox.max[c], bbox.min[c])]
        scale_factor == fdiv(Num(2), tensor_max(diagonal))
        center_point == [c \in 1..3 |->
                           fmul(<<1, 2>>, fadd(bbox.min[c], bbox.max[c]))]
        tensors == clone_and_transform(inp, center_point, scale_factor)
    IN [kind |-> "scaled",
        inp |-> tensors.inp_centered_scaled,
        passed_in |-> tensors.passed_in,
        bbox |-> bbox,
        center_point |-> center_point,
        scale_factor |-> scale_factor]

\* load_one_graph (lines 161-190) on the graph load_graphs has read: the node
\* features are centered and scaled, the edge features get the same
\* transform; an exception leaves as the Exception of line 190.
load_one_graph(g) ==
  LET cs == center_and_scale_uvgrid(g.ndata) IN
  IF cs.kind = "raise" THEN Raised(<<"load_one_graph failed", cs.msg>>)
  ELSE [kind |-> "graph", num_nodes |-> g.num_nodes,
        src |-> g.src, dst |-> g.dst,
        ndata |-> cs.inp,
        edata |-> [e \in DOMAIN g.edata |->
                     [i \in DOMAIN g.edata[e] |->
                        shift_and_scale(g.edata[e][i], cs.center_point,
                                        cs.scale_factor)]],
        bbox |-> cs.bbox,
        center_point |-> cs.center_point, scale_factor |-> cs.scale_factor]

(* ------------------------------- SpecNorm: load_one_graph on one graph *)

\* The points a sample of the graphs tried may lie at.
Positions == { <<0, 0, 0>>, <<4, 0, 0>>, <<1, 2, 0>>, <<0, 1, 3>> }

\* A node sample: position, normal, visibility flag.
NodeSamples ==
  { <<Num(p[1]), Num(p[2]), Num(p[3]), 0, 0, 1, vis>> :
      p \in Positions, vis \in {0, 1} }

\* An edge sample: position, tangent.
EdgeSamples == { <<Num(p[1]), Num(p[2]), Num(p[3]), 1, 0, 0>> : p \in Positions }

\* The shapes (nodes, num_u, num_v) of node features of at most MaxSamples
\* samples.
Shapes ==
  { sh \in (1..MaxSamples) \X (1..MaxSamples) \X (1..MaxSamples) :
      sh[1] * sh[2] * sh[3] <= MaxSamples }

\* The graphs tried: node features of every shape, one edge of one sample
\* from the first node to the last.
Graphs ==
  UNION { [kind : {"graph"},
           num_nodes : {sh[1]}, src : {<<1>>}, dst : {<<sh[1]>>},
           ndata : [1..sh[1] -> [1..sh[2] -> [1..sh[3] -> NodeSamples]]],
           edata : [1..1 -> [1..1 -> EdgeSamples]]] : sh \in Shapes }

InitNorm ==
  /\ graph \in Graphs
  /\ scaled = Nothing
  /\ solid = Nothing
  /\ dgl_graph = Nothing
  /\ input_dir = Nothing
  /\ category_stats = Nothing
  /\ worksheet = Nothing
  /\ imap_args = Nothing
  /\ imap_chunksize = Nothing
  /\ frozen = FALSE
  /\ tree = [f \in {} |-> "ok"]
  /\ disk = [p \in OutUniverse |-> Absent]
  /\ batch = [b \in BatchIds |-> UnusedBatch]
  /\ tab = IdleTab

\* load_one_graph(file_path) is called on the file that holds graph.
LoadOneGraph ==
  /\ graph # Nothing
  /\ scaled = Nothing
  /\ scaled' = load_one_graph(graph)
  /\ UNCHANGED <<frozen, tree, disk, batch, tab, solid, dgl_graph, graph,
                 input_dir, category_stats, worksheet,
                 imap_args, imap_chunksize>>

\* The graph load_one_graph returned is normalized once more: lines 170-177
\* are run on it (center_and_scale_uvgrid on its node features, the same
\* transform on its edge features).  Tried on the graphs whose scale is a
\* number; graph then is the graph that went in, scaled the one that came
\* out.
NormalizeAgain ==
  /\ scaled.kind = "graph"
  /\ "scale_factor" \notin DOMAIN graph
  /\ Finite(scaled.scale_factor)
  /\ graph' = scaled
  /\ scaled' = load_one_graph(scaled)
  /\ UNCHANGED <<frozen, tree, disk, batch, tab, solid, dgl_graph,
                 input_dir, category_stats, worksheet,
                 imap_args, imap_chunksize>>

\* center_and_scale_uvgrid(graph.ndata["x"], return_center_scale=True) is
\* called on the node features of a graph that was read: scaled is what it
\* returns, and the node features hold what the call left in them.
CenterAndScaleUvgrid ==
  /\ graph # Nothing
  /\ "scale_factor" \notin DOMAIN graph
  /\ scaled = Nothing
  /\ LET cs == center_and_scale_uvgrid(graph.ndata) IN
     /\ scaled' = cs
     /\ graph' = IF cs.kind = "raise" THEN graph
                 ELSE [graph EXCEPT !.ndata = cs.passed_in]
  /\ UNCHANGED <<frozen, tree, disk, batch, tab, solid, dgl_graph,
                 input_dir, category_stats, worksheet,
                 imap_args, imap_chunksize>>

NextNorm ==
  \/ LoadOneGraph
  \/ CenterAndScaleUvgrid
  \/ NormalizeAgain

SpecNorm == InitNorm /\ [][NextNorm]_vars

(* -------------------- SpecChunk: the chunk size of one imap_unordered *)

\* The calls tried: n files discovered (line 471 has let no empty list
\* through), p worker processes (Pool needs one at least).
ImapArgs ==
  [kind : {"args"}, len_step_files : 1..MaxTaskCount,
   num_processes : 1..MaxPoolSize]

InitChunk ==
  /\ imap_args \in ImapArgs
  /\ imap_chunksize = Nothing
  /\ solid = Nothing
  /\ dgl_graph = Nothing
  /\ graph = Nothing
  /\ scaled = Nothing
  /\ input_dir = Nothing
  /\ category_stats = Nothing
  /\ worksheet = Nothing
  /\ frozen = FALSE
  /\ tree = [f \in {} |-> "ok"]
  /\ disk = [p \in OutUniverse |-> Absent]
  /\ batch = [b \in BatchIds |-> UnusedBatch]
  /\ tab = IdleTab

\* Line 514: the chunksize argument is evaluated.
ImapUnordered ==
  /\ imap_args # Nothing
  /\ imap_chunksize = Nothing
  /\ imap_chunksize' =
       [kind |-> "int",
        value |-> chunksize(imap_args.len_step_files,
                            imap_args.num_processes)]
  /\ UNCHANGED <<frozen, tree, disk, batch, tab, solid, dgl_graph, graph,
                 scaled, input_dir, category_stats, worksheet, imap_args>>

NextChunk == ImapUnordered

SpecChunk == InitChunk /\ [][NextChunk]_vars

(* ==================================================== statistics_analyzer *)

\* Names an entry of the analysed directory may have, in ascending order of
\* str: two folders and a plain file.
EntryNames == <<"A", "B", "readme.txt">>

\* a < b of two names.
name_lt(a, b) ==
  \E i, j \in DOMAIN EntryNames :
    EntryNames[i] = a /\ EntryNames[j] = b /\ i < j

\* The (number_of_nodes, number_of_edges) of the graphs tried.
GraphSizes == { <<2, 1>>, <<4, 6>>, <<6, 5>> }

\* A file of a category folder: a graph file that init() loads ("bin"), a
\* .bin file on which init() raises ("bad"), or a file that "*.bin" does not
\* match in the folder itself ("other": another suffix, or deeper down).
Files ==
  { [kind |-> "bin", nodes |-> sz[1], edges |-> sz[2]] : sz \in GraphSizes }
    \cup { [kind |-> k, nodes |-> 0, edges |-> 0] : k \in {"bad", "other"} }

\* The sequences over S of length at most n.
SeqsUpTo(S, n) == UNION { [1..k -> S] : k \in 0..n }

\* The entries a directory may hold: folder A with at most MaxModels files,
\* folder B with at most one, the plain file.
Entries ==
  { [name |-> "A", is_dir |-> TRUE, files |-> fs] :
      fs \in SeqsUpTo(Files, MaxModels) }
    \cup { [name |-> "B", is_dir |-> TRUE, files |-> fs] :
             fs \in SeqsUpTo(Files, 1) }
    \cup { [name |-> "readme.txt", is_dir |-> FALSE, files |-> <<>>] }

\* The directories tried: at most two entries of different names, in the
\* order iterdir() yields them.
Dirs ==
  { [kind |-> "dir", entries |-> es] :
      es \in { e \in SeqsUpTo(Entries, 2) :
                 \A i, j \in DOMAIN e : i # j => e[i].name # e[j].name } }

\* Line 119: subfolder.glob("*.bin").
glob_bin(files) == SelectSeq(files, LAMBDA f : f.kind \in {"bin", "bad"})

\* Lines 120-131: init(str(file)) returns (the file is counted) or raises
\* (the file is skipped).
init_returns(f) == f.kind = "bin"

\* Mutation of has_models: a category is kept whatever its count.
has_models_always(model_count) == TRUE

\* Line 134: `if model_count > 0`.
has_models(model_count) == model_count > 0

\* Lines 112-131: the lists and the count gathered for one subfolder.
category_data(subfolder) ==
  LET loaded == SelectSeq(glob_bin(subfolder.files), init_returns) IN
  [name |-> subfolder.name,
   model_count |-> Len(loaded),
   nodes |-> [i \in DOMAIN loaded |-> loaded[i].nodes],
   edges |-> [i \in DOMAIN loaded |-> loaded[i].edges]]

\* analyze_category_statistics (lines 104-149): the dict, as the list of
\* its items in insertion order.
analyze_category_statistics(dir) ==
  LET subfolders == SelectSeq(dir.entries, LAMBDA e : e.is_dir)
      gathered == [i \in DOMAIN subfolders |-> category_data(subfolders[i])]
  IN SelectSeq(gathered, LAMBDA c : has_models(c.model_count))

\* sum(xs), min(xs), max(xs) of a list of counts.
RECURSIVE Sum(_)
Sum(xs) == IF xs = <<>> THEN 0 ELSE Head(xs) + Sum(Tail(xs))

list_min(xs) == CHOOSE m \in Range(xs) : \A x \in Range(xs) : m <= x

list_max(xs) == CHOOSE m \in Range(xs) : \A x \in Range(xs) : x <= m

\* Lines 195 / 201: sum(xs) / len(xs).
average(xs) == Frac(Sum(xs), Len(xs))

\* sum((x - avg) ** 2 for x in xs).
RECURSIVE squared_deviations(_, _)
squared_deviations(xs, avg) ==
  IF xs = <<>> THEN Num(0)
  ELSE fadd(fmul(fsub(Num(Head(xs)), avg), fsub(Num(Head(xs)), avg)),
            squared_deviations(Tail(xs), avg))

\* Mutation of variance: the sample variance, divided by N - 1.
variance_sample(xs) ==
  fdiv(squared_deviations(xs, average(xs)), Num(Max(1, Len(xs) - 1)))

\* Lines 196 / 202, under the root: the sum of squares divided by len(xs).
variance(xs) == fdiv(squared_deviations(xs, average(xs)), Num(Len(xs)))

\* round(a, 2) of a number a >= 0, as a fraction of hundredths (a tie goes
\* to the even hundredth).
round2(a) ==
  LET q == (100 * a[1]) \div a[2]
      rem == 100 * a[1] - q * a[2]
  IN Frac(IF 2 * rem < a[2] THEN q
          ELSE IF 2 * rem > a[2] THEN q + 1
          ELSE IF q % 2 = 0 THEN q ELSE q + 1, 100)

\* h - 1/2 hundredths is at most the square root of v.
below_root(v, h) ==
  h = 0 \/ (2 * h - 1) * (2 * h - 1) * v[2] <= 40000 * v[1]

\* The largest h of lo..hi with below_root(v, h).
RECURSIVE root_search(_, _, _)
root_search(v, lo, hi) ==
  IF lo >= hi THEN lo
  ELSE LET mid == (lo + hi + 1) \div 2 IN
       IF below_root(v, mid) THEN root_search(v, mid, hi)
       ELSE root_search(v, lo, mid - 1)

\* round(v ** 0.5, 2) of a number v >= 0 (lines 196 and 211).
round2_root(v) ==
  LET h == root_search(v, 0, 100 * (v[1] \div v[2] + 1))
      tie == h > 0 /\ (2 * h - 1) * (2 * h - 1) * v[2] = 40000 * v[1]
  IN Frac(IF tie /\ h % 2 = 1 THEN h - 1 ELSE h, 100)

\* sorted(stats.items()): ascending by category name.
RECURSIVE sorted(_)
sorted(items) ==
  IF items = <<>> THEN <<>>
  ELSE LET least == CHOOSE i \in DOMAIN items :
                      \A j \in DOMAIN items :
                        ~name_lt(items[j].name, items[i].name)
       IN <<items[least]>> \o
          sorted(SubSeq(items, 1, least - 1)
                   \o SubSeq(items, least + 1, Len(items)))

\* Lines 191-218: the row of one category.
summary_row(c) ==
  [category |-> c.name,
   model_count |-> c.model_count,
   node_avg |-> round2(average(c.nodes)),
   node_std |-> round2_root(variance(c.nodes)),
   node_min |-> list_min(c.nodes),
   node_max |-> list_max(c.nodes),
   edge_avg |-> round2(average(c.edges)),
   edge_std |-> round2_root(variance(c.edges)),
   edge_min |-> list_min(c.edges),
   edge_max |-> list_max(c.edges)]

\* save_statistics_to_excel (lines 169-229): the rows appended after the
\* header.  A category whose statistics raise (an empty list) gets no row.
save_statistics_to_excel(stats) ==
  IF stats = <<>> THEN Raised("ValueError: no statistics")
  ELSE LET computable ==
             SelectSeq(sorted(stats),
                       LAMBDA c : c.nodes # <<>> /\ c.edges # <<>>)
       IN [kind |-> "sheet",
           rows |-> [i \in DOMAIN computable |-> summary_row(computable[i])]]

(* ------------------------------ SpecStats: the statistics of a directory *)

InitStats ==
  /\ input_dir \in Dirs
  /\ category_stats = Nothing
  /\ worksheet = Nothing
  /\ imap_args = Nothing
  /\ imap_chunksize = Nothing
  /\ solid = Nothing
  /\ dgl_graph = Nothing
  /\ graph = Nothing
  /\ scaled = Nothing
  /\ frozen = FALSE
  /\ tree = [f \in {} |-> "ok"]
  /\ disk = [p \in OutUniverse |-> Absent]
  /\ batch = [b \in BatchIds |-> UnusedBatch]
  /\ tab = IdleTab

\* analyze_category_statistics(input_dir) is called.
AnalyzeCategoryStatistics ==
  /\ input_dir # Nothing
  /\ category_stats = Nothing
  /\ category_stats' = [kind |-> "stats",
                        items |-> analyze_category_statistics(input_dir)]
  /\ UNCHANGED <<frozen, tree, disk, batch, tab, solid, dgl_graph, graph,
                 scaled, input_dir, worksheet, imap_args,
                 imap_chunksize>>

\* save_statistics_to_excel(stats, save_path) is called on the result.
SaveStatisticsToExcel ==
  /\ category_stats # Nothing
  /\ worksheet = Nothing
  /\ worksheet' = save_statistics_to_excel(category_stats.items)
  /\ UNCHANGED <<frozen, tree, disk, batch, tab, solid, dgl_graph, graph,
                 scaled, input_dir, category_stats, imap_args,
                 imap_chunksize>>

NextStats ==
  \/ AnalyzeCategoryStatistics
  \/ SaveStatisticsToExcel

SpecStats == InitStats /\ [][NextStats]_vars

(* ================================================================ claims *)

\* The call of Spec neither returned nor raised, and can take no step.
Stuck(b) ==
  /\ batch[b].via = "api"
  /\ batch[b].pc \notin {"returned", "raised"}
  /\ ~ENABLED Next

\* Files of the call that fail / that convert.
FailingFiles(b) == { f \in Range(batch[b].step_files) : tree[f] # "ok" }

ValidFiles(b) == { f \in Range(batch[b].step_files) : tree[f] = "ok" }

\* Output files that hold a complete graph.
OutputGraphs == { p \in OutUniverse : disk[p].state = "complete" }

\* C1: failure isolation.  A file whose conversion raises is recorded as
\* (path relative to the input root, message), every other discovered file
\* is still processed, and the call returns: it raises only when discovery
\* found nothing, and it never stops short of returning.
C1_FailureIsolation ==
  \A b \in BatchIds :
    /\ batch[b].pc = "raised" => batch[b].step_files = <<>>
    /\ ~Stuck(b)
    /\ batch[b].pc = "returned" =>
         /\ batch[b].attempted = Range(batch[b].step_files)
         /\ batch[b].processed_count = batch[b].total_files
         /\ \A f \in FailingFiles(b) :
              \E i \in DOMAIN batch[b].result.failures :
                batch[b].result.failures[i] =
                  <<relative_to(f, InputRoot), error_msg(tree[f])>>

\* C1 witness: a call has returned with a failed file recorded and another
\* file converted.
C1_Witness ==
  \E b \in BatchIds :
    /\ batch[b].pc = "returned"
    /\ FailingFiles(b) # {}
    /\ \E f \in ValidFiles(b) : disk[output_file(f)].state = "complete"

\* C2: failure accounting.  When the call has returned, failureCount and
\* len(failures) equal the number M of files that fail, and exactly N output
\* graph files exist, N the number of files that convert.
C2_FailureAccounting ==
  \A b \in BatchIds :
    (batch[b].via = "api" /\ batch[b].pc = "returned") =>
      /\ batch[b].result.count = Cardinality(FailingFiles(b))
      /\ Len(batch[b].result.failures) = Cardinality(FailingFiles(b))
      /\ Cardinality(OutputGraphs) = Cardinality(ValidFiles(b))

\* C3: progress reporting.  With a callback given, the k-th call carries
\* (k, total), there is one call per accounted file, and when the call has
\* returned there were total calls, the last one (total, total).
C3_Progress ==
  \A b \in BatchIds :
    batch[b].progress_callback # "none" =>
      /\ Len(batch[b].cbLog) = batch[b].processed_count
      /\ \A k \in DOMAIN batch[b].cbLog :
           batch[b].cbLog[k] = <<k, batch[b].total_files>>
      /\ batch[b].pc = "returned" =>
           /\ Len(batch[b].cbLog) = batch[b].total_files
           /\ batch[b].cbLog[Len(batch[b].cbLog)] =
                <<batch[b].total_files, batch[b].total_files>>

\* C3 witness: a call over two files, one of them failing, has returned
\* after the calls (1, 2) and (2, 2).
C3_Witness ==
  \E b \in BatchIds :
    /\ batch[b].pc = "returned"
    /\ batch[b].cbLog = << <<1, 2>>, <<2, 2>> >>
    /\ FailingFiles(b) # {}

\* The input tree holds no file with a recognised extension.
NoStepFiles == DOMAIN tree \cap StepUniverse = {}

\* C4: empty discovery fails fast.  With no .stp/.step file under the input
\* root the call raises the no-input-files error: nothing is dispatched, no
\* progress is delivered, no pool is made and no (0, []) is returned.
C4_EmptyDiscovery ==
  \A b \in BatchIds :
    (NoStepFiles /\ batch[b].via = "api") =>
      /\ batch[b].pc \in {"call", "raised"}
      /\ batch[b].pc = "raised" => batch[b].result.kind = "ValueError"
      /\ batch[b].result.kind # "value"
      /\ batch[b].attempted = {}
      /\ batch[b].cbLog = <<>>
      /\ batch[b].pool = "none"

\* C4 witness: the call has raised over a tree that holds only a file of
\* another type.
C4_Witness ==
  \E b \in BatchIds :
    /\ NoStepFiles
    /\ DOMAIN tree # {}
    /\ batch[b].pc = "raised"

\* C5: cancellation stops dispatch.  Once stop_processing has stopped a
\* thread whose pool was converting, no task of its batch that was not yet
\* handed to a worker is handed to one.
C5_NoDispatchAfterCancel ==
  [][\A b \in BatchIds :
       (batch[b].cancelled /\ batch[b].cancel_pool = "live") =>
         Len(batch'[b].pending) >= Len(batch[b].pending)]_vars

\* C6: cancellation result.  When a thread that stop_processing stopped
\* after it had accounted a file has finished, the tab was handed what the
\* batch had gathered, and the run is not marked as completed.
C6_CancelResult ==
  \A b \in BatchIds :
    (batch[b].cancelled /\ batch[b].cancel_at >= 1
       /\ batch[b].pc = "finished") =>
      /\ batch[b].delivered
      /\ tab.thread = b =>
           tab.status_label \notin {"done", "done, some failed"}

\* C7: no progress after cancellation.  Once stop_processing has stopped a
\* thread before its last file was accounted, update_progress receives
\* nothing more from it, and the last count it received is below total.
C7_NoProgressAfterCancel ==
  [][\A b \in BatchIds :
       (batch[b].cancelled /\ batch[b].cancel_at < batch[b].total_files) =>
         /\ batch'[b].sink = batch[b].sink
         /\ batch[b].sink # <<>> =>
              batch[b].sink[Len(batch[b].sink)][1] < batch[b].total_files]_vars

\* The step is check_memory_usage finding the ceiling breached.
MemoryBreachStep ==
  /\ tab'.status_label = "memory warning"
  /\ tab'.thread # tab.thread

\* C8: memory-ceiling teardown.  When check_memory_usage finds the ceiling
\* breached, every pool that is converting files is terminated.
C8_MemoryTeardown ==
  [][MemoryBreachStep =>
       \A b \in BatchIds :
         batch[b].pool = "live" => batch'[b].pool = "terminated"]_vars

\* C9: atomic outputs.  An output file that exists and that no job is
\* writing at the moment is the complete graph of a job that succeeded.
C9_AtomicOutputs ==
  \A p \in OutUniverse :
    (disk[p].state # "absent" /\ disk[p].writers = 0) =>
      /\ disk[p].state = "complete"
      /\ tree[disk[p].src] = "ok"

\* C10: the packaged environment forces sequential mode.  With sys.frozen
\* set no pool, hence no worker process, is created for a batch.
C10_FrozenNoPool ==
  frozen =>
    \A b \in BatchIds : batch[b].ui_pool = "none" /\ batch[b].pool = "none"

(* ------------------------------------------------- claims on build_graph *)

\* build_graph has returned a graph.
Built == dgl_graph.kind = "graph"

\* The edges of the solid's adjacency graph whose edge has a curve.
CurveEdges(s) == { k \in DOMAIN s.edges : s.edges[k].has_curve }

\* The samples of a grid of num_u rows of num_v samples, as a set of
\* positions.
GridPositions(grid) ==
  UNION { { <<i, j>> : j \in DOMAIN grid[i] } : i \in DOMAIN grid }

\* C11: curve-less edges are dropped consistently.  For every solid whose
\* sampling calls all succeed, build_graph returns a graph; its edges are
\* the adjacency edges that have a curve, none of those without one, and it
\* has as many edges as edge features.
C11_CurvelessEdgesDropped ==
  (dgl_graph # Nothing /\ solid.fail = NoFail) =>
    /\ Built
    /\ Len(dgl_graph.src) = Len(dgl_graph.edata)
    /\ Len(dgl_graph.src) = Cardinality(CurveEdges(solid))

\* C12: node features.  For a solid with at least one face the graph has
\* one node per face, node i carrying the samples of the i-th face of the
\* enumeration; there are as many node-feature entries as faces, and each
\* entry holds num_u * num_v samples of 7 channels: the position, the normal
\* and a visibility flag that is 0 or 1.
C12_NodeFeatures ==
  (Built /\ Len(solid.faces) >= 1) =>
    /\ dgl_graph.num_nodes = Len(solid.faces)
    /\ Len(dgl_graph.ndata) = Len(solid.faces)
    /\ \A i \in DOMAIN dgl_graph.ndata :
         LET grid == dgl_graph.ndata[i] IN
         /\ Cardinality(GridPositions(grid)) = solid.num_u * solid.num_v
         /\ \A p \in GridPositions(grid) :
              LET x == grid[p[1]][p[2]] IN
              /\ Len(x) = 7
              /\ SubSeq(x, 1, 3) =
                   uvgrid_point(i, solid.num_u, solid.num_v)[p[1]][p[2]]
              /\ SubSeq(x, 4, 6) =
                   uvgrid_normal(i, solid.num_u, solid.num_v)[p[1]][p[2]]
              /\ x[7] \in {0, 1}

\* C12 witness: a graph of two faces sampled on a 2 x 2 grid was built.
C12_Witness ==
  /\ Built
  /\ Len(solid.faces) = 2
  /\ solid.num_u = 2
  /\ solid.num_v = 2
  /\ Len(dgl_graph.ndata) = 2

\* The classification of sample p of face i of the solid.
Classification(i, p) ==
  uvgrid_visibility_status(solid.faces[i], solid.num_u,
                           solid.num_v)[p[1]][p[2]][1]

\* C13: visibility mask rule.  The visibility channel of a sample is 1
\* exactly when its classification is 0 or 2, and 0 otherwise.
C13_VisibilityMask ==
  Built =>
    \A i \in DOMAIN dgl_graph.ndata :
      \A p \in GridPositions(dgl_graph.ndata[i]) :
        LET flag == dgl_graph.ndata[i][p[1]][p[2]][7] IN
        /\ Classification(i, p) \in {0, 2} => flag = 1
        /\ Classification(i, p) \notin {0, 2} => flag = 0

\* C13 witness: a graph was built of a face with samples of all three
\* classifications.
C13_Witness ==
  /\ Built
  /\ \E i \in DOMAIN dgl_graph.ndata :
       \A c \in Classes :
         \E p \in GridPositions(dgl_graph.ndata[i]) : Classification(i, p) = c

\* A sampling call of build_graph raises on solid s.
SamplingFails(s) ==
  \/ s.fail.on = "face"
  \/ s.fail.on = "edge" /\ s.edges[s.fail.idx].has_curve

\* C14: build_graph is all-or-nothing.  When a sampling call fails for the
\* solid, build_graph raises and returns no graph; the batch then writes no
\* output file for the solid's file and records it as one failure.
C14_AllOrNothing ==
  (solid # Nothing /\ SamplingFails(solid)) =>
    /\ dgl_graph # Nothing => dgl_graph.kind = "raise"
    /\ disk[output_file(SolidFile)].state = "absent"
    /\ \A b \in BatchIds :
         batch[b].pc = "returned" =>
           /\ batch[b].result.count = 1
           /\ batch[b].result.failures =
                << <<relative_to(SolidFile, InputRoot), error_msg("geom")>> >>

\* C14 witness: the sampling of the second face failed after the first face
\* had been sampled, build_graph raised and the batch has returned.
C14_Witness ==
  /\ solid # Nothing
  /\ solid.fail = [on |-> "face", idx |-> 2]
  /\ dgl_graph.kind = "raise"
  /\ \E b \in BatchIds : batch[b].pc = "returned"

(* ---------------------------------------------- claims on the normalizer *)

\* The positions of the node samples of graph whose visibility is 1.
VisiblePoints ==
  { SubSeq(samples_of(graph.ndata)[i], 1, 3) :
      i \in { k \in DOMAIN samples_of(graph.ndata) :
                samples_of(graph.ndata)[k][7] = 1 } }

\* The least and the largest coordinate c of the visible points.
Lo(c) ==
  CHOOSE m \in { p[c] : p \in VisiblePoints } :
    \A p \in VisiblePoints : fle(m, p[c])

Hi(c) ==
  CHOOSE m \in { p[c] : p \in VisiblePoints } :
    \A p \in VisiblePoints : fle(p[c], m)

\* The largest of the three extents of the box of the visible points.
LargestExtent ==
  CHOOSE e \in { fsub(Hi(c), Lo(c)) : c \in 1..3 } :
    \A c \in 1..3 : fle(fsub(Hi(c), Lo(c)), e)

\* The midpoint of the box, and 2 / the largest extent.
Center == [c \in 1..3 |-> fdiv(fadd(Lo(c), Hi(c)), Num(2))]

Scale == fdiv(Num(2), LargestExtent)

\* The position of x moved and scaled: (p - center) * scale.
Moved(x, center, scale) ==
  [c \in 1..3 |-> fmul(fsub(x[c], center[c]), scale)]

\* C15: normalize.  The box is that of the node samples with visibility 1,
\* center is its midpoint and scale is 2 / its largest extent; every
\* position of the node features and of the edge features, visible or not,
\* becomes (p - center) * scale, with the same center and scale.
C15_Normalize ==
  (scaled.kind = "graph" /\ VisiblePoints # {} /\ LargestExtent # Num(0)) =>
    LET center == Center
        scale == Scale IN
    /\ scaled.center_point = center
    /\ scaled.scale_factor = scale
    /\ \A n \in DOMAIN graph.ndata :
         \A i \in DOMAIN graph.ndata[n] :
           \A j \in DOMAIN graph.ndata[n][i] :
             SubSeq(scaled.ndata[n][i][j], 1, 3) =
               Moved(graph.ndata[n][i][j], center, scale)
    /\ \A e \in DOMAIN graph.edata :
         \A i \in DOMAIN graph.edata[e] :
           SubSeq(scaled.edata[e][i], 1, 3) =
             Moved(graph.edata[e][i], center, scale)

\* C15 witness: a graph was normalized whose visible samples span a box and
\* which has a sample that is not visible and lies outside that box.
C15_Witness ==
  /\ scaled.kind = "graph"
  /\ Cardinality(VisiblePoints) >= 2
  /\ \E k \in DOMAIN samples_of(graph.ndata) :
       LET x == samples_of(graph.ndata)[k] IN
       /\ x[7] = 0
       /\ \E c \in 1..3 : ~fle(x[c], Hi(c))

\* C16: empty input.  With no node sample of visibility 1 (the box of an
\* empty point set) normalize fails instead of returning a graph; the box
\* of a non-empty point set is the componentwise minimum and maximum.
C16_EmptyInput ==
  scaled # Nothing =>
    /\ VisiblePoints = {} => scaled.kind = "raise"
    /\ (VisiblePoints # {} /\ scaled.kind = "graph") =>
         \A c \in 1..3 : /\ scaled.bbox.min[c] = Lo(c)
                         /\ scaled.bbox.max[c] = Hi(c)

\* C16 witness: normalize has failed on a graph without a visible sample.
C16_Witness ==
  /\ scaled.kind = "raise"
  /\ VisiblePoints = {}
  /\ Len(samples_of(graph.ndata)) >= 2

(* ---------------------------------------------- claims on the statistics *)

\* The graph files directly inside folder e that load.
LoadedFiles(e) == { i \in DOMAIN e.files : e.files[i].kind = "bin" }

\* C17: empty categories are omitted.  The result has an entry for an entry
\* of the directory exactly when that entry is a folder with a graph file
\* directly inside it that loads; a file that fails to load is skipped, the
\* other files of its folder are counted, and no category is reported empty.
C17_EmptyCategoriesOmitted ==
  category_stats # Nothing =>
    /\ category_stats.kind = "stats"
    /\ \A i \in DOMAIN input_dir.entries :
         LET e == input_dir.entries[i] IN
         (\E k \in DOMAIN category_stats.items :
            category_stats.items[k].name = e.name)
           <=> (e.is_dir /\ LoadedFiles(e) # {})
    /\ \A k \in DOMAIN category_stats.items :
         LET c == category_stats.items[k] IN
         /\ c.model_count > 0
         /\ \A i \in DOMAIN input_dir.entries :
              input_dir.entries[i].name = c.name =>
                /\ c.model_count = Cardinality(LoadedFiles(input_dir.entries[i]))
                /\ Len(c.nodes) = c.model_count
                /\ Len(c.edges) = c.model_count

\* C17 witness: folder A holds a file that fails to load and one that
\* loads, folder B holds only a file that fails: the result is A alone.
C17_Witness ==
  /\ category_stats # Nothing
  /\ Len(category_stats.items) = 1
  /\ category_stats.items[1].name = "A"
  /\ \E i, j \in DOMAIN input_dir.entries :
       /\ input_dir.entries[i].name = "A"
       /\ \E f \in Range(input_dir.entries[i].files) : f.kind = "bad"
       /\ input_dir.entries[j].name = "B"
       /\ input_dir.entries[j].files # <<>>
       /\ \A f \in Range(input_dir.entries[j].files) : f.kind = "bad"

\* n * sum(x^2) - sum(x)^2: the population variance of xs times n^2.
ScaledVariance(xs) ==
  Len(xs) * Sum([i \in DOMAIN xs |-> xs[i] * xs[i]]) - Sum(xs) * Sum(xs)

\* avg is the arithmetic mean of xs and std its population standard
\* deviation, exactly.
ExactStatistics(xs, avg, std) ==
  /\ avg = Frac(Sum(xs), Len(xs))
  /\ std[1] * std[1] * Len(xs) * Len(xs) = std[2] * std[2] * ScaledVariance(xs)

\* The number of hundredths a number of two decimals holds.
Hundredths(a) == (100 * a[1]) \div a[2]

\* avg and std are numbers of two decimals, each within half a hundredth
\* of the arithmetic mean and of the population standard deviation of xs.
RoundedStatistics(xs, avg, std) ==
  LET n == Len(xs)
      m == Hundredths(avg)
      h == Hundredths(std) IN
  /\ 100 % avg[2] = 0
  /\ 100 % std[2] = 0
  /\ 2 * Abs(100 * Sum(xs) - m * n) <= n
  /\ h = 0 \/ (2 * h - 1) * (2 * h - 1) * n * n <= 40000 * ScaledVariance(xs)
  /\ 40000 * ScaledVariance(xs) <= (2 * h + 1) * (2 * h + 1) * n * n

\* The sheet has one row per category of the statistics, in ascending order
\* of category name, with the model count, the minimum and the maximum of
\* the node counts and of the edge counts, and means and deviations that
\* satisfy Stat.
SummaryRows(Stat(_, _, _)) ==
  (category_stats # Nothing /\ worksheet # Nothing
     /\ category_stats.items # <<>>) =>
    /\ worksheet.kind = "sheet"
    /\ Len(worksheet.rows) = Len(category_stats.items)
    /\ \A i, j \in DOMAIN worksheet.rows :
         i < j => name_lt(worksheet.rows[i].category,
                          worksheet.rows[j].category)
    /\ \A k \in DOMAIN category_stats.items :
         LET c == category_stats.items[k] IN
         \E i \in DOMAIN worksheet.rows :
           LET row == worksheet.rows[i] IN
           /\ row.category = c.name
           /\ row.model_count = c.model_count
           /\ row.node_min = list_min(c.nodes)
           /\ row.node_max = list_max(c.nodes)
           /\ row.edge_min = list_min(c.edges)
           /\ row.edge_max = list_max(c.edges)
           /\ Stat(c.nodes, row.node_avg, row.node_std)
           /\ Stat(c.edges, row.edge_avg, row.edge_std)

\* C18 (as stated): category summary.  Every category has a row with its
\* model count, the arithmetic mean, the population standard deviation, the
\* minimum and the maximum of its node counts and of its edge counts, the
\* values exactly as computed, rows in ascending order of category name.
C18_ExactSummary == SummaryRows(ExactStatistics)

\* C18 (amended): as above, the mean and the standard deviation being
\* rounded to two decimals.
C18_RoundedSummary == SummaryRows(RoundedStatistics)

\* C18 witness: the sheet of folders B and A, met in that order, has two
\* rows; A has the node counts 2, 4, 6 and its row the deviation 1.63.
C18_Witness ==
  /\ worksheet # Nothing
  /\ worksheet.kind = "sheet"
  /\ Len(worksheet.rows) = 2
  /\ input_dir.entries[1].name = "B"
  /\ \E k \in DOMAIN category_stats.items :
       category_stats.items[k].nodes = <<2, 4, 6>>
  /\ worksheet.rows[1].node_avg = Num(4)
  /\ worksheet.rows[1].node_std = Frac(163, 100)

(* ------------------------------------------ claims on the call's faults *)

\* C19 (as stated): errors that escape the file boundary propagate
\* unmodified.  When an exception of input discovery or of the start of the
\* pool ends the call, the caller gets that exception, of the same type, not
\* another one made from it.
C19_ErrorsUnmodified ==
  \A b \in BatchIds :
    (batch[b].pc = "raised"
       /\ batch[b].cause \in {"NotADirectoryError", "ValueError", "OSError"})
      => batch[b].result.kind = batch[b].cause

\* C19 (amended): an exception of input discovery reaches the caller as it
\* is; an exception of the start of the pool reaches the caller as a plain
\* Exception made from it.
C19_ErrorsWrapped ==
  \A b \in BatchIds :
    batch[b].pc = "raised" =>
      /\ batch[b].cause \in {"NotADirectoryError", "ValueError"} =>
           batch[b].result.kind = batch[b].cause
      /\ batch[b].cause = "OSError" => batch[b].result.kind = "Exception"

\* C19 witness: the start of the pool has failed for a call that had found
\* two files, and the call has raised.
C19_Witness ==
  \E b \in BatchIds :
    /\ batch[b].pc = "raised"
    /\ batch[b].cause = "OSError"
    /\ batch[b].total_files = 2

\* The call can take no step of NextFaults and has not ended.
Blocked(b) ==
  /\ batch[b].via = "api"
  /\ batch[b].pc \notin {"unused", "returned", "raised"}
  /\ ~ENABLED NextFaults

\* C20: a batch run always completes with a result.  Once discovery has
\* found a file and the pool has started (or the sequential loop runs), the
\* call does not raise and is never left waiting with nothing to wait for,
\* whatever the files, the workers and the progress callback do.
C20_AlwaysCompletes ==
  \A b \in BatchIds :
    (batch[b].step_files # <<>> /\ (frozen \/ batch[b].pool # "none")) =>
      /\ batch[b].pc # "raised"
      /\ ~Blocked(b)

(* ------------------------------------ claims on the tab's memory check *)

\* C21: a memory-ceiling breach truncates, it does not fail.  A batch that
\* had found files and was running when check_memory_usage found the
\* ceiling breached returns normally, what it returns is handed on to the
\* tab (it is not lost) and carries a marker that the run was truncated.
C21_BreachTruncates ==
  \A b \in BatchIds :
    (batch[b].breached /\ batch[b].total_files > 0
       /\ batch[b].pc = "finished") =>
      /\ batch[b].result.kind = "value"
      /\ batch[b].delivered
      /\ "truncated" \in DOMAIN batch[b].result

(* ------------------------------------------- claims on the pooled mode *)

\* Worker w of batch b is at work on the file whose output path is p.
WorksOn(b, w, p) ==
  /\ batch[b].workers[w].stage \in {"load", "write"}
  /\ output_file(Head(batch[b].workers[w].chunk)) = p

\* C22: shared-state ownership.  While the pool of a batch is live, the
\* progress counter and the failure list change only when the loop drains
\* one result from the pool: the counter goes up by one and the list gets at
\* most that result.  A step changes the state of at most one worker, and an
\* output file changes only when a worker that is at work on the file of
\* that output path takes a step.
C22_SharedStateOwnership ==
  [][\A b \in BatchIds :
       batch[b].pool = "live" =>
         /\ (batch'[b].processed_count # batch[b].processed_count
               \/ batch'[b].failed_files # batch[b].failed_files) =>
              /\ batch[b].pc = "pool_wait"
              /\ batch[b].outq # <<>>
              /\ batch'[b].outq = Tail(batch[b].outq)
              /\ batch'[b].processed_count = batch[b].processed_count + 1
              /\ batch'[b].failed_files \in
                   {batch[b].failed_files,
                    Append(batch[b].failed_files, Head(batch[b].outq))}
              /\ batch'[b].workers = batch[b].workers
              /\ disk' = disk
         /\ \A v, w \in DOMAIN batch[b].workers :
              (batch'[b].workers[v] # batch[b].workers[v]
                 /\ batch'[b].workers[w] # batch[b].workers[w]) => v = w
         /\ \A p \in OutUniverse :
              disk'[p] # disk[p] =>
                \E w \in DOMAIN batch[b].workers :
                  /\ WorksOn(b, w, p)
                  /\ batch'[b].workers[w] # batch[b].workers[w]]_vars

\* C22 witness: with two workers, one failure was drained and recorded
\* while the other worker is writing its output file.
C22_Witness ==
  \E b \in BatchIds :
    /\ batch[b].pool = "live"
    /\ Len(batch[b].workers) = 2
    /\ batch[b].processed_count = 1
    /\ Len(batch[b].failed_files) = 1
    /\ \E w \in DOMAIN batch[b].workers : batch[b].workers[w].stage = "write"

\* The worker processes alive on behalf of batch b.
LiveWorkers(b) == ui_pool_processes(batch[b]) + pool_processes(batch[b])

\* C23: bounded worker count.  While the pool of a batch started with worker
\* count W is live, no more than W worker processes made for that batch are
\* alive.
C23_BoundedWorkers ==
  \A b \in BatchIds :
    batch[b].pool = "live" => LiveWorkers(b) <= batch[b].num_proc

(* ------------------------------------- claims on normalizing once more *)

\* graph is a graph that was normalized before, scaled is what normalizing
\* it once more gave.
NormalizedTwice ==
  /\ graph # Nothing
  /\ "scale_factor" \in DOMAIN graph
  /\ scaled.kind = "graph"

\* C24 (as stated): normalize is not idempotent.  Normalizing a normalized
\* graph whose visible box has non-zero extent shifts and scales the
\* positions again: the result differs from the graph that went in.
C24_NotIdempotent ==
  NormalizedTwice =>
    \/ scaled.ndata # graph.ndata
    \/ scaled.edata # graph.edata

\* C24 (amended): normalize is idempotent.  Normalizing a normalized graph
\* whose visible box has non-zero extent finds the center at the origin and
\* the scale 1, and gives back the node and edge features as they went in.
C24_Idempotent ==
  NormalizedTwice =>
    /\ scaled.center_point = <<Num(0), Num(0), Num(0)>>
    /\ scaled.scale_factor = Num(1)
    /\ scaled.ndata = graph.ndata
    /\ scaled.edata = graph.edata

\* C24 witness: a graph was normalized twice whose first normalization
\* moved it (center not the origin) and scaled it (scale not 1).
C24_Witness ==
  /\ NormalizedTwice
  /\ graph.center_point # <<Num(0), Num(0), Num(0)>>
  /\ graph.scale_factor # Num(1)
  /\ Len(samples_of(graph.ndata)) >= 2

\* Tensor r has the shape of tensor t and in every sample the channels
\* from..to of t's sample.
SameChannels(t, r, from, to) ==
  /\ DOMAIN r = DOMAIN t
  /\ \A n \in DOMAIN t :
       /\ DOMAIN r[n] = DOMAIN t[n]
       /\ \A i \in DOMAIN t[n] :
            /\ DOMAIN r[n][i] = DOMAIN t[n][i]
            /\ \A j \in DOMAIN t[n][i] :
                 SubSeq(r[n][i][j], from, to) = SubSeq(t[n][i][j], from, to)

\* The same for edge features, which have one dimension less.
SameEdgeChannels(t, r, from, to) ==
  /\ DOMAIN r = DOMAIN t
  /\ \A e \in DOMAIN t :
       /\ DOMAIN r[e] = DOMAIN t[e]
       /\ \A i \in DOMAIN t[e] :
            SubSeq(r[e][i], from, to) = SubSeq(t[e][i], from, to)

\* Graph r is graph g but for the positions of its samples.
GraphFrame(g, r) ==
  /\ r.num_nodes = g.num_nodes
  /\ r.src = g.src
  /\ r.dst = g.dst
  /\ SameChannels(g.ndata, r.ndata, 4, 7)
  /\ SameEdgeChannels(g.edata, r.edata, 4, 6)
  /\ \A n \in DOMAIN g.ndata : \A i \in DOMAIN g.ndata[n] :
       \A j \in DOMAIN g.ndata[n][i] : Len(r.ndata[n][i][j]) = 7
  /\ \A e \in DOMAIN g.edata : \A i \in DOMAIN g.edata[e] :
       Len(r.edata[e][i]) = 6

C26_ChunkSizeBounded ==
  imap_chunksize # Nothing =>
    /\ imap_args.len_step_files >= 1
    /\ imap_args.num_processes >= 1
    /\ imap_chunksize.value \in Int
    /\ 1 <= imap_chunksize.value
    /\ imap_chunksize.value <= 10

\* C26 witness: for 110 files and one process, where n // (p * 10) is 11,
\* the chunk size is 10.
C26_Witness ==
  /\ imap_chunksize # Nothing
  /\ imap_args.len_step_files = 110
  /\ imap_args.num_processes = 1
  /\ imap_chunksize.value = 10

(* ------------------------------------------ claims on runs and restarts *)

\* The files with a recognised extension under the input root.
InputFiles == DOMAIN tree \cap StepUniverse

\* C27: a restart redoes everything.  Every batch, the one the memory check
\* starts included, discovers every file under the input root, and when it
\* has returned it has run the conversion on every one of them, whether or
\* not the file's output graph was there already.
C27_RestartRedoesAll ==
  \A b \in BatchIds :
    /\ batch[b].step_files # <<>> =>
         /\ Range(batch[b].step_files) = InputFiles
         /\ batch[b].total_files = Cardinality(InputFiles)
    /\ (batch[b].total_files > 0
          /\ batch[b].pc \in {"returned", "thread_emit", "finished"}) =>
         batch[b].attempted = InputFiles

\* C27 witness: the first thread was stopped by the memory check and has
\* finished after converting a file; the batch of the restart is writing
\* the output of that file anew, alone, over the complete graph.
C27_Witness ==
  \E f \in InputFiles :
    /\ batch[1].breached
    /\ batch[1].pc = "finished"
    /\ f \in batch[1].attempted
    /\ tree[f] = "ok"
    /\ batch[2].pool = "live"
    /\ \E w \in DOMAIN batch[2].workers :
         /\ batch[2].workers[w].stage = "write"
         /\ Head(batch[2].workers[w].chunk) = f
    /\ disk[output_file(f)].writers = 1
    /\ ~disk[output_file(f)].torn

\* The thread of batch b is executing convert_step_to_dgl.
Converting(b) ==
  /\ batch[b].via = "thread"
  /\ batch[b].pc \in {"call", "seq_file", "seq_write", "account", "cb_emit",
                      "pool_start", "pool_wait"}

\* C28: at most one batch at a time.  Whatever the order of run, stop and
\* memory-timer events, no two worker threads of the tab are executing
\* convert_step_to_dgl at the same time.
C28_OneBatchAtATime ==
  \A b, c \in BatchIds : (Converting(b) /\ Converting(c)) => b = c

(* ------------------------------------------- claims on the output paths *)

\* C29: output paths are distinct.  Two different files a batch has
\* discovered, whatever their extensions, have different output paths, so
\* the batch has as many output paths as files.
C29_OutputPathsDistinct ==
  \A b \in BatchIds :
    /\ \A f, g \in Range(batch[b].step_files) :
         f # g => output_file(f) # output_file(g)
    /\ Cardinality({ output_file(f) : f \in Range(batch[b].step_files) })
         = batch[b].total_files

(* ---------------------------------------------- claims on the two modes *)

\* C30: sequential and pooled mode agree.  Called on the same files with
\* the same outcomes and a callback that does not raise, the call in one
\* mode and the call in the other end alike: both raise, or both return the
\* same failure count and the same failure records, order aside, after the
\* same sequence of (completed, total) progress values.
C30_ModesAgree ==
  batch[2].pc \in {"returned", "raised"} =>
    /\ batch[2].pc = batch[1].pc
    /\ batch[2].step_files = batch[1].step_files
    /\ batch[2].result.kind = batch[1].result.kind
    /\ batch[2].result.count = batch[1].result.count
    /\ Range(batch[2].result.failures) = Range(batch[1].result.failures)
    /\ batch[2].cbLog = batch[1].cbLog

\* C30 witness: the sequential call and the pooled call, in either order,
\* have both returned two failures with a callback given, the failure
\* records in another order.
C30_Witness ==
  /\ batch[1].pc = "returned"
  /\ batch[2].pc = "returned"
  /\ batch[1].num_processes # batch[2].num_processes
  /\ batch[1].progress_callback = "sink"
  /\ batch[1].result.count = 2
  /\ batch[1].result.failures # batch[2].result.failures

====
